---- MODULE Spec2Model ----
(***************************************************************************)
(* HTML to PDF microservice (src/server.py, src/helper.py, src/models.py). *)
(*                                                                         *)
(* The model follows the asyncio program: every coroutine runs atomically  *)
(* from one await that really suspends to the next, so each action below   *)
(* is the code between two such awaits.  The rendering engine (Playwright  *)
(* driver, Chromium, pages) is the environment: every call on it may       *)
(* succeed or raise, an engine may crash at any time, and the load and     *)
(* print steps take a nondeterministic time.                               *)
(***************************************************************************)
EXTENDS Integers, Sequences, FiniteSets, TLC

\* ------------------------------------------------------------------ bounds

\* Largest batch explored (jobs 0..MaxJobs-1 run as concurrent tasks).
MaxJobs == 2

\* ------------------------------------------------------- program constants

MAX_BATCH_SIZE == 50
MAX_HTML_SIZE == 10000000
CONVERSION_TIMEOUT == 60
BROWSER_TIMEOUT == 30

\* ------------------------------------------------------------------ inputs

\* An HTML document, by what the validators and the engine read of it: the
\* number of characters, the number of UTF-8 bytes, whether every character
\* is whitespace, and the byte that tells one document from another.
EmptyDoc == [chars |-> 0, bytes |-> 0, blank |-> TRUE, code |-> 0]
BlankDoc == [chars |-> 1, bytes |-> 1, blank |-> TRUE, code |-> 32]
DocA == [chars |-> 8, bytes |-> 8, blank |-> FALSE, code |-> 65]
DocB == [chars |-> 8, bytes |-> 8, blank |-> FALSE, code |-> 66]
HugeDoc == [chars |-> MAX_HTML_SIZE + 1, bytes |-> MAX_HTML_SIZE + 1,
            blank |-> FALSE, code |-> 72]

SingleDocs == {EmptyDoc, BlankDoc, DocA, HugeDoc}
BatchDocs == {DocA, DocB}

Tasks == 1..MaxJobs

\* Engines and drivers are numbered in creation order. Startup creates at
\* most one of each and every conversion at most one of each.
Engines == 1..(MaxJobs + 1)
Drivers == 1..(MaxJobs + 1)

VARIABLES
    request,      \* the HTTP request being served
    rstate,       \* "received" | "running" | "responded"
    response,     \* the HTTP response, once rstate = "responded"
    life,         \* position of lifespan / init_browser / close_browser
    browser,      \* _browser: 0 is None, else an engine
    playwright,   \* _playwright: 0 is None, else a driver
    browser_lock, \* _browser_lock: 0 is free, else the task holding it
    engine,       \* per engine: "unborn" | "live" | "dead"
    engineOf,     \* per engine: the driver that launched it (0: none yet)
    driver,       \* per driver: "unborn" | "up" | "down"
    closing,      \* the handle teardown is closing (engine or driver), 0 if none
    pc,           \* per task: position in _convert_html_to_pdf_bytes
    local,        \* per task: the browser _get_browser returned (0: none yet)
    via,          \* per task: the driver its launch call was made on (0: none)
    page,         \* per task: "none" | "open" | "closed" | "close_failed"
    outcome,      \* per task: what the conversion returns or raises
    launches,     \* launch calls made by _get_browser since construction
    origin,       \* history: "unset", or how serving began: "startup" | "lazy"
    warned        \* the closes teardown logged a warning for: "browser", "playwright"

vars == <<request, rstate, response, life, browser, playwright, browser_lock,
          engine, engineOf, driver, closing, pc, local, via, page, outcome,
          launches, origin, warned>>


\* ------------------------------------------------------ request validation

\* index: Optional[int] = None
NoIndex == -1

\* validate_html_size: len(v.encode('utf-8')) > MAX_HTML_SIZE raises.
validate_html_size(v) == v.bytes <= MAX_HTML_SIZE

\* HTMLRequest / RawHTMLRequest: Field(..., min_length=1), then validate_size.
\* TRUE when the model is built, FALSE when pydantic raises.
HTMLRequest(html) == html.chars >= 1 /\ validate_html_size(html)

\* html.strip(): leading and trailing whitespace removed.
strip(html) ==
    IF html.blank THEN [html EXCEPT !.chars = 0, !.bytes = 0] ELSE html

\* BatchHTMLRequest.validate_batch_size.
validate_batch_size(v) == Len(v) > 0 /\ Len(v) <= MAX_BATCH_SIZE

\* BatchHTMLRequest.validate_html_items (server.py: with the size check).
validate_html_items(v) ==
    \A i \in 1..Len(v) :
        /\ v[i].chars > 0
        /\ strip(v[i]).chars > 0
        /\ v[i].bytes <= MAX_HTML_SIZE

BatchHTMLRequest(v) == validate_batch_size(v) /\ validate_html_items(v)

\* models.py: MAX_BATCH_SIZE is imported from helper.py.
helper_MAX_BATCH_SIZE == 1000

\* models.py, BatchHTMLRequest.validate_batch_size.
models_validate_batch_size(v) == Len(v) > 0 /\ Len(v) <= helper_MAX_BATCH_SIZE

\* models.py, BatchHTMLRequest.validate_html_items: no size check.
models_validate_html_items(v) ==
    \A i \in 1..Len(v) :
        /\ v[i].chars > 0
        /\ strip(v[i]).chars > 0

models_BatchHTMLRequest(v) ==
    models_validate_batch_size(v) /\ models_validate_html_items(v)

\* validation_exception_handler: every RequestValidationError is answered 422.
validation_exception_handler ==
    [status |-> 422, kind |-> "validation", body |-> <<>>, length |-> 0,
     detail |-> "RequestValidationError"]

\* The requests explored: both single endpoints with every document of
\* SingleDocs, and batches of 0..MaxJobs documents in both return formats.
RECURSIVE SeqsUpTo(_, _)
SeqsUpTo(S, n) ==
    IF n = 0 THEN {<<>>}
    ELSE LET shorter == SeqsUpTo(S, n - 1)
         IN  shorter \cup {Append(q, x) : q \in {r \in shorter : Len(r) = n - 1}, x \in S}

\* A batch of one document more than MAX_BATCH_SIZE.
TooManyDocs == [i \in 1..(MAX_BATCH_SIZE + 1) |-> DocA]

\* Batches that break a limit: an empty, a whitespace-only and an oversized
\* item, alone or after a good one, and too many items.
BadBatches ==
    {<<EmptyDoc>>, <<BlankDoc>>, <<HugeDoc>>, <<DocA, BlankDoc>>, TooManyDocs}

\* module: whose request models parse the body, server.py's or models.py's.
Requests ==
    {[endpoint |-> e, html_list |-> <<h>>, return_format |-> "none",
      module |-> "server"] :
        e \in {"/convert", "/convert-raw"}, h \in SingleDocs}
    \cup
    {[endpoint |-> "/convert-batch", html_list |-> l, return_format |-> f,
      module |-> "server"] :
        l \in SeqsUpTo(BatchDocs, MaxJobs) \cup BadBatches, f \in {"zip", "json"}}
    \cup
    {[endpoint |-> "/convert-batch", html_list |-> l, return_format |-> "zip",
      module |-> "models"] :
        l \in {<<HugeDoc>>, <<BlankDoc>>}}

IsBatch == request.endpoint = "/convert-batch"

\* The request model is built: pydantic accepts the body or the validation
\* handler answers. An accepted request's conversions are created.
Accepted ==
    IF IsBatch
    THEN IF request.module = "models"
         THEN models_BatchHTMLRequest(request.html_list)
         ELSE BatchHTMLRequest(request.html_list)
    ELSE HTMLRequest(request.html_list[1])

\* The jobs of the request: tasks 1..NJobs run once it is accepted.
NJobs ==
    IF rstate = "received" \/ ~Accepted THEN 0 ELSE Len(request.html_list)

\* The index a task's conversion is called with: i for the i-th task of a
\* batch (enumerate), None for a single request.
IndexOf(t) == IF IsBatch THEN t - 1 ELSE NoIndex

\* ------------------------------------------------------- the engine's side

\* What page.pdf returns for a loaded document: a header and a body that
\* depends on the document, so different documents give different bytes of
\* different lengths.
PdfOf(html) ==
    <<37, 80, 68, 70>> \o [k \in 1..(1 + (html.code % 2)) |-> html.code]

\* Durations (ms) the engine may take for set_content and for pdf.
LoadTimes == {10000, 45000, 90000}

\* page.set_default_timeout(BROWSER_TIMEOUT * 1000)
PageDeadline == BROWSER_TIMEOUT * 1000

\* asyncio.wait_for(..., timeout=CONVERSION_TIMEOUT)
WaitDeadline == CONVERSION_TIMEOUT * 1000

Min(a, b) == IF a <= b THEN a ELSE b

\* The exceptions of the program. The engine raises playwright.Error and its
\* subclass playwright.TimeoutError; neither is the builtin TimeoutError.
EngineError ==
    [type |-> "playwright.Error", text |-> "engine error", timeout |-> 0,
     index |-> NoIndex]

PageTimeout ==
    [type |-> "playwright.TimeoutError", text |-> "Timeout exceeded",
     timeout |-> PageDeadline, index |-> NoIndex]

WaitTimeout ==
    [type |-> "asyncio.TimeoutError", text |-> "", timeout |-> 0,
     index |-> NoIndex]

\* await asyncio.wait_for(page.set_content(html, wait_until="networkidle"),
\* timeout=CONVERSION_TIMEOUT) on a page whose default timeout is
\* BROWSER_TIMEOUT: what it raises ("none": it returns) when the load takes
\* t ms and the engine fails it or not. The earlier deadline fires.
set_content(t, fails) ==
    IF t <= Min(PageDeadline, WaitDeadline)
    THEN {IF fails THEN EngineError ELSE [type |-> "none"]}
    ELSE IF PageDeadline < WaitDeadline THEN {PageTimeout}
    ELSE IF WaitDeadline < PageDeadline THEN {WaitTimeout}
    ELSE {PageTimeout, WaitTimeout}

\* await asyncio.wait_for(page.pdf(...), timeout=CONVERSION_TIMEOUT): page.pdf
\* takes no timeout of its own.
pdf(t, fails) ==
    IF t <= WaitDeadline
    THEN {IF fails THEN EngineError ELSE [type |-> "none"]}
    ELSE {WaitTimeout}

\* ------------------------------------------------------ single conversion

\* except asyncio.TimeoutError: raise TimeoutError(msg)
\* except Exception: raise
ExceptClauses(e, index) ==
    IF e.type = "asyncio.TimeoutError"
    THEN [type |-> "TimeoutError", text |-> "Conversion timeout after",
          timeout |-> CONVERSION_TIMEOUT, index |-> index]
    ELSE e

Raised(e, index) == [tag |-> "exc", exc |-> ExceptClauses(e, index)]

\* A conversion that returns position 0 for every job.
ReturnedFirst(index, pdf_bytes) ==
    [tag |-> "ok", index |-> 0, pdf |-> pdf_bytes]

\* return (index if index is not None else 0, pdf_bytes)
Returned(index, pdf_bytes) ==
    [tag |-> "ok", index |-> IF index # NoIndex THEN index ELSE 0,
     pdf |-> pdf_bytes]

NoOutcome == [tag |-> "none"]

\* isinstance(e, TimeoutError), the builtin
IsTimeoutError(e) == e.type = "TimeoutError"

\* type(e).__name__
TypeName(e) ==
    IF e.type \in {"TimeoutError", "playwright.TimeoutError"} THEN "TimeoutError"
    ELSE "Error"

\* _handle_conversion around _convert_html_to_pdf: the response of a single
\* request whose conversion ended with outcome o.
_handle_conversion(o) ==
    IF o.tag = "ok"
    THEN [status |-> 200, kind |-> "application/pdf", body |-> o.pdf,
          length |-> Len(o.pdf), detail |-> "none"]
    ELSE IF IsTimeoutError(o.exc)
    THEN [status |-> 504, kind |-> "HTTPException", body |-> <<>>, length |-> 0,
          detail |-> o.exc]
    ELSE [status |-> 500, kind |-> "HTTPException", body |-> <<>>, length |-> 0,
          detail |-> o.exc]


\* ------------------------------------------------------ batch orchestrator

\* The list asyncio.gather(*tasks, return_exceptions=True) returns: the
\* outcome of task i at position i, whatever the completion order.
gather == [i \in 1..NJobs |-> outcome[i]]

\* for i, result in enumerate(results): the errors list, in index order.
RECURSIVE errors_upto(_, _)
errors_upto(results, n) ==
    IF n = 0 THEN <<>>
    ELSE IF results[n].tag = "exc"
    THEN Append(errors_upto(results, n - 1),
                [index |-> n - 1,
                 error |-> results[n].exc,
                 error_type |-> IF IsTimeoutError(results[n].exc) THEN "timeout"
                                ELSE TypeName(results[n].exc)])
    ELSE errors_upto(results, n - 1)

errors_of(results) == errors_upto(results, Len(results))

MaxOf(S) == CHOOSE x \in S : \A y \in S : y <= x
MinOf(S) == CHOOSE x \in S : \A y \in S : x <= y

\* successful_pdfs[result[0]] = result[1]: keyed by the index the conversion
\* returned; a later result with the same key overwrites an earlier one.
successful_pdfs_of(results) ==
    LET ok(i) == results[i].tag = "ok"
        keys == {results[i].index : i \in {j \in 1..Len(results) : ok(j)}}
        last(k) == MaxOf({i \in 1..Len(results) : ok(i) /\ results[i].index = k})
    IN  [k \in keys |-> results[last(k)].pdf]

\* sorted(successful_pdfs.keys())
RECURSIVE sorted(_)
sorted(S) ==
    IF S = {} THEN <<>> ELSE <<MinOf(S)>> \o sorted(S \ {MinOf(S)})

\* base64.b64encode: every 3 bytes give 4 sextets; a last group of 1 or 2
\* bytes is padded with "=" (written 64).
RECURSIVE b64encode(_)
b64encode(bs) ==
    IF Len(bs) = 0 THEN <<>>
    ELSE IF Len(bs) = 1
    THEN <<bs[1] \div 4, (bs[1] % 4) * 16, 64, 64>>
    ELSE IF Len(bs) = 2
    THEN <<bs[1] \div 4, (bs[1] % 4) * 16 + (bs[2] \div 16),
           (bs[2] % 16) * 4, 64>>
    ELSE <<bs[1] \div 4, (bs[1] % 4) * 16 + (bs[2] \div 16),
           (bs[2] % 16) * 4 + (bs[3] \div 64), bs[3] % 64>>
         \o b64encode(SubSeq(bs, 4, Len(bs)))

\* An archive whose entries are named from the 0-based index.
document_name_from_index(idx) == <<"document_", idx, ".pdf">>

\* f"document_{idx+1}.pdf"
document_name(idx) == <<"document_", idx + 1, ".pdf">>

\* A json response that carries the PDF bytes as they are.
b64encode_skipped(bs) == bs

\* base64.b64encode(pdf_bytes).decode('utf-8')
pdfs_base64(bs) == b64encode(bs)

\* A batch that fails as a whole as soon as one job failed.
FailedOnAnyError(success_count, error_count) == error_count > 0

\* if success_count == 0: raise HTTPException(status_code=500, ...)
WholeBatchFailed(success_count, error_count) == success_count = 0

\* convert_batch_html_to_pdf after the gather: classify, count, package.
batch_response(results, return_format) ==
    LET successful_pdfs == successful_pdfs_of(results)
        errors == errors_of(results)
        success_count == Cardinality(DOMAIN successful_pdfs)
        error_count == Len(errors)
        order == sorted(DOMAIN successful_pdfs)
    IN  IF WholeBatchFailed(success_count, error_count)
        THEN [status |-> 500, kind |-> "HTTPException",
              total |-> Len(results), success_count |-> success_count,
              error_count |-> error_count, headers |-> {},
              entries |-> <<>>, pdfs |-> <<>>,
              errors_key |-> TRUE, errors |-> errors]
        ELSE IF return_format = "zip"
        THEN [status |-> 200, kind |-> "application/zip",
              total |-> Len(results), success_count |-> success_count,
              error_count |-> error_count,
              headers |-> IF errors # <<>>
                          THEN {<<"X-Conversion-Errors", error_count>>,
                                <<"X-Conversion-Success", success_count>>}
                          ELSE {},
              entries |-> [k \in 1..Len(order) |->
                             [name |-> document_name(order[k]),
                              data |-> successful_pdfs[order[k]]]],
              pdfs |-> <<>>,
              errors_key |-> FALSE, errors |-> <<>>]
        ELSE [status |-> 200, kind |-> "application/json",
              total |-> Len(results), success_count |-> success_count,
              error_count |-> error_count, headers |-> {},
              entries |-> <<>>,
              pdfs |-> [k \in DOMAIN successful_pdfs |-> pdfs_base64(successful_pdfs[k])],
              errors_key |-> errors # <<>>,
              errors |-> IF errors # <<>> THEN errors ELSE <<>>]

\* -------------------------------------------------------------------- Init

Init ==
    /\ request \in Requests
    /\ rstate = "received"
    /\ response = [status |-> 0]
    /\ life = "boot"
    /\ browser = 0
    /\ playwright = 0
    /\ browser_lock = 0
    /\ engine = [e \in Engines |-> "unborn"]
    /\ engineOf = [e \in Engines |-> 0]
    /\ driver = [d \in Drivers |-> "unborn"]
    /\ closing = 0
    /\ pc = [t \in Tasks |-> "idle"]
    /\ local = [t \in Tasks |-> 0]
    /\ via = [t \in Tasks |-> 0]
    /\ page = [t \in Tasks |-> "none"]
    /\ outcome = [t \in Tasks |-> NoOutcome]
    /\ launches = 0
    /\ origin = "unset"
    /\ warned = {}

\* ------------------------------------------------------- the engine's side

NewEngine == MinOf({e \in Engines : engine[e] = "unborn"})
NewDriver == MinOf({d \in Drivers : driver[d] = "unborn"})

\* _playwright.chromium.launch(...) returns a connected browser of driver d.
Launched(d) ==
    /\ driver[d] = "up"
    /\ engine' = [engine EXCEPT ![NewEngine] = "live"]
    /\ engineOf' = [engineOf EXCEPT ![NewEngine] = d]

\* async_playwright().__aenter__() returns a running driver.
Entered ==
    /\ driver' = [driver EXCEPT ![NewDriver] = "up"]

\* The browser process dies or its connection drops: is_connected() is False
\* from then on.
Disconnect ==
    /\ \E e \in Engines :
        /\ engine[e] = "live"
        /\ engine' = [engine EXCEPT ![e] = "dead"]
    /\ UNCHANGED <<request, rstate, response, life, browser, playwright,
                   browser_lock, engineOf, driver, closing, pc, local, via,
                   page, outcome, launches, origin,
                   warned>>


\* --------------------------------------------------------------- lifecycle

\* finally: if _browser: ... / if _playwright: ... : where teardown goes first.
TeardownEntry(b, p) ==
    IF b # 0 THEN [life |-> "close_browser", closing |-> b]
    ELSE IF p # 0 THEN [life |-> "close_pw", closing |-> p]
    ELSE [life |-> "closed", closing |-> 0]

\* lifespan: _playwright = await async_playwright().__aenter__(), then the
\* launch call; on an exception the finally block runs with nothing cached.
StartupEnter ==
    /\ life = "boot"
    /\ \/ /\ Entered
          /\ playwright' = NewDriver
          /\ life' = "start_browser"
       \/ /\ life' = "closed"
          /\ UNCHANGED <<driver, playwright>>
    /\ UNCHANGED <<request, rstate, response, browser, browser_lock, engine,
                   engineOf, closing, pc, local, via, page, outcome, launches,
                   origin,
                   warned>>

\* lifespan / init_browser: _browser = await _playwright.chromium.launch(...);
\* on an exception lifespan's finally block closes the driver.
StartupLaunch ==
    /\ life = "start_browser"
    /\ \/ /\ Launched(playwright)
          /\ browser' = NewEngine
          /\ life' = "serving"
          /\ origin' = "startup"
          /\ UNCHANGED closing
       \/ /\ life' = TeardownEntry(browser, playwright).life
          /\ closing' = TeardownEntry(browser, playwright).closing
          /\ UNCHANGED <<browser, engine, engineOf, origin>>
    /\ UNCHANGED <<request, rstate, response, playwright, browser_lock, driver,
                   pc, local, via, page, outcome, launches,
                   warned>>

\* helper.py: get_browser is usable without init_browser having run; the
\* handle is then created on first use.
LazyStart ==
    /\ life = "boot"
    /\ life' = "serving"
    /\ origin' = "lazy"
    /\ UNCHANGED <<request, rstate, response, browser, playwright, browser_lock,
                   engine, engineOf, driver, closing, pc, local, via, page,
                   outcome, launches,
                   warned>>

\* A task the event loop has scheduled and not run yet: a conversion of an
\* accepted request before its first step, or the lock waiter that the
\* release of the lock has woken. The loop runs it before it handles any
\* event that arrives later.
Ready(t) ==
    \/ t <= NJobs /\ pc[t] = "idle"
    \/ pc[t] = "wait_lock" /\ browser_lock = 0

\* lifespan's finally / close_browser is entered (shutdown arrives) and runs
\* up to its first await. Tasks that are ready run first; the awaits that
\* are pending then end in any order.
TeardownBegin ==
    /\ life = "serving"
    /\ \A t \in Tasks : ~Ready(t)
    /\ life' = TeardownEntry(browser, playwright).life
    /\ closing' = TeardownEntry(browser, playwright).closing
    /\ UNCHANGED <<request, rstate, response, browser, playwright, browser_lock,
                   engine, engineOf, driver, pc, local, via, page, outcome,
                   launches, origin,
                   warned>>

\* await _browser.close() ends, by returning or by raising (logged); then
\* _browser = None and the check of _playwright.
CloseBrowserEnd ==
    /\ life = "close_browser"
    /\ \/ /\ engine' = [engine EXCEPT ![closing] = "dead"]
          /\ UNCHANGED warned
       \/ /\ warned' = warned \cup {"browser"}
          /\ UNCHANGED engine
    /\ browser' = 0
    /\ life' = TeardownEntry(0, playwright).life
    /\ closing' = TeardownEntry(0, playwright).closing
    /\ UNCHANGED <<request, rstate, response, playwright, browser_lock,
                   engineOf, driver, pc, local, via, page, outcome, launches,
                   origin>>

\* await _playwright.__aexit__(None, None, None) ends, by returning (the
\* driver and the browsers it launched are gone) or by raising (logged);
\* then _playwright = None.
ClosePlaywrightEnd ==
    /\ life = "close_pw"
    /\ \/ /\ driver' = [driver EXCEPT ![closing] = "down"]
          /\ engine' = [e \in Engines |->
                          IF engineOf[e] = closing /\ engine[e] = "live"
                          THEN "dead" ELSE engine[e]]
          /\ UNCHANGED warned
       \/ /\ warned' = warned \cup {"playwright"}
          /\ UNCHANGED <<driver, engine>>
    /\ playwright' = 0
    /\ life' = "closed"
    /\ closing' = 0
    /\ UNCHANGED <<request, rstate, response, browser, browser_lock, engineOf,
                   pc, local, via, page, outcome, launches, origin>>

\* ------------------------------------------------------------ _get_browser

\* A test that looks only for a missing handle.
NeedBrowserIfNone == browser = 0

\* if _browser is None or not _browser.is_connected():
NeedBrowser == browser = 0 \/ engine[browser] # "live"

\* A _get_browser that creates whenever it gets the lock.
SecondCheckSkipped == TRUE

\* The same test again, once the lock is held.
SecondCheck == NeedBrowser

\* A conversion that keeps the lock once _get_browser has it.
LockKept(t) == t

\* async with _browser_lock: leaving the block, by the end of its body or by
\* an exception, releases the lock.
LockReleased(t) == 0

\* A lock taken and released by hand, which an exception leaves held.
LockHeldOnError(t) == t

\* async with _browser_lock: an exception raised in the body goes through
\* the lock's __aexit__, which releases it, and then on.
LockExitOnError(t) == LockReleased(t)

\* The body of "async with _browser_lock:" for task t, from the moment the
\* lock is held to its first await, or to the return when nothing is to do.
Locked(t) ==
    IF SecondCheck
    THEN /\ browser_lock' = t
         /\ IF playwright = 0
            THEN /\ pc' = [pc EXCEPT ![t] = "aenter"]
                 /\ UNCHANGED <<via, launches>>
            ELSE /\ pc' = [pc EXCEPT ![t] = "launch"]
                 /\ via' = [via EXCEPT ![t] = playwright]
                 /\ launches' = launches + 1
         /\ UNCHANGED local
    ELSE /\ browser_lock' = LockReleased(t)
         /\ pc' = [pc EXCEPT ![t] = "new_page"]
         /\ local' = [local EXCEPT ![t] = browser]
         /\ UNCHANGED <<via, launches>>

\* A conversion without the finally block.
FinallySkipped(pg) == "done"

\* finally: if page: await page.close(). Where a conversion that leaves its
\* try block goes: to the close of its page when it has one.
Finally(pg) == IF pg = "open" THEN "close_page" ELSE "done"

\* A task of the request starts _convert_html_to_pdf_bytes and runs to the
\* first await of _get_browser or, with a connected handle cached, to
\* browser.new_page().
Start(t) ==
    /\ rstate = "running"
    /\ t <= NJobs
    /\ pc[t] = "idle"
    /\ IF NeedBrowser
       THEN IF browser_lock = 0
            THEN Locked(t)
            ELSE /\ pc' = [pc EXCEPT ![t] = "wait_lock"]
                 /\ UNCHANGED <<browser_lock, local, via, launches>>
       ELSE /\ pc' = [pc EXCEPT ![t] = "new_page"]
            /\ local' = [local EXCEPT ![t] = browser]
            /\ UNCHANGED <<browser_lock, via, launches>>
    /\ UNCHANGED <<request, rstate, response, life, browser, playwright, engine,
                   engineOf, driver, closing, page, outcome, origin,
                   warned>>

\* The lock is released and a waiting task gets it.
LockGranted(t) ==
    /\ pc[t] = "wait_lock"
    /\ browser_lock = 0
    /\ Locked(t)
    /\ UNCHANGED <<request, rstate, response, life, browser, playwright, engine,
                   engineOf, driver, closing, page, outcome, origin,
                   warned>>

\* _playwright = await async_playwright().__aenter__() ends inside the lock:
\* the driver is cached and the launch call made, or the exception leaves
\* the lock and the conversion (no page yet).
AenterEnd(t) ==
    /\ pc[t] = "aenter"
    /\ \/ /\ Entered
          /\ playwright' = NewDriver
          /\ via' = [via EXCEPT ![t] = NewDriver]
          /\ launches' = launches + 1
          /\ pc' = [pc EXCEPT ![t] = "launch"]
          /\ UNCHANGED <<browser_lock, outcome>>
       \/ /\ browser_lock' = LockExitOnError(t)
          /\ outcome' = [outcome EXCEPT ![t] = Raised(EngineError, IndexOf(t))]
          /\ pc' = [pc EXCEPT ![t] = Finally(page[t])]
          /\ UNCHANGED <<driver, playwright, via, launches>>
    /\ UNCHANGED <<request, rstate, response, life, browser, engine, engineOf,
                   closing, local, page, origin,
                   warned>>

\* _browser = await _playwright.chromium.launch(...) ends inside the lock:
\* the new browser is cached, the lock released and _browser returned, or
\* the exception leaves the lock and the conversion with _browser as it was.
LaunchEnd(t) ==
    /\ pc[t] = "launch"
    /\ \/ /\ Launched(via[t])
          /\ browser' = NewEngine
          /\ browser_lock' = LockReleased(t)
          /\ local' = [local EXCEPT ![t] = NewEngine]
          /\ pc' = [pc EXCEPT ![t] = "new_page"]
          /\ UNCHANGED outcome
       \/ /\ browser_lock' = LockExitOnError(t)
          /\ outcome' = [outcome EXCEPT ![t] = Raised(EngineError, IndexOf(t))]
          /\ pc' = [pc EXCEPT ![t] = Finally(page[t])]
          /\ UNCHANGED <<browser, engine, engineOf, local>>
    /\ UNCHANGED <<request, rstate, response, life, playwright, driver, closing,
                   via, page, launches, origin,
                   warned>>


\* ----------------------------------------------- _convert_html_to_pdf_bytes

\* The exception a call on the engine raises, "none" when it may return: a
\* call on a browser that is gone can only raise.
Gone(t) == engine[local[t]] # "live"

\* page = await browser.new_page() ends; then page.set_default_timeout and
\* the set_content call.
NewPageEnd(t) ==
    /\ pc[t] = "new_page"
    /\ \/ /\ ~Gone(t)
          /\ page' = [page EXCEPT ![t] = "open"]
          /\ pc' = [pc EXCEPT ![t] = "set_content"]
          /\ UNCHANGED outcome
       \/ /\ outcome' = [outcome EXCEPT ![t] = Raised(EngineError, IndexOf(t))]
          /\ pc' = [pc EXCEPT ![t] = Finally(page[t])]
          /\ UNCHANGED page
    /\ UNCHANGED <<request, rstate, response, life, browser, playwright,
                   browser_lock, engine, engineOf, driver, closing, local, via,
                   launches, origin,
                   warned>>

\* A conversion that loads again when the load failed.
ExceptRetry(pg) == "set_content"

\* except asyncio.TimeoutError: raise TimeoutError(msg) / except Exception:
\* raise: the conversion leaves the try block with the exception, through
\* the finally block.
ExceptRaise(pg) == Finally(pg)

\* The wait for page.set_content ends; on success the page.pdf call is made.
SetContentEnd(t) ==
    /\ pc[t] = "set_content"
    /\ \E ms \in LoadTimes, fails \in BOOLEAN :
        \E e \in set_content(ms, fails \/ Gone(t)) :
            IF e.type = "none"
            THEN /\ pc' = [pc EXCEPT ![t] = "pdf"]
                 /\ UNCHANGED outcome
            ELSE /\ outcome' = [outcome EXCEPT ![t] = Raised(e, IndexOf(t))]
                 /\ pc' = [pc EXCEPT ![t] = ExceptRaise(page[t])]
    /\ UNCHANGED <<request, rstate, response, life, browser, playwright,
                   browser_lock, engine, engineOf, driver, closing, local, via,
                   page, launches, origin,
                   warned>>

\* The wait for page.pdf ends: the conversion returns (index or 0, pdf_bytes)
\* or raises; either way the finally block follows.
PdfEnd(t) ==
    /\ pc[t] = "pdf"
    /\ \E ms \in LoadTimes, fails \in BOOLEAN :
        \E e \in pdf(ms, fails \/ Gone(t)) :
            outcome' = [outcome EXCEPT ![t] =
                IF e.type = "none"
                THEN Returned(IndexOf(t), PdfOf(request.html_list[t]))
                ELSE Raised(e, IndexOf(t))]
    /\ pc' = [pc EXCEPT ![t] = Finally(page[t])]
    /\ UNCHANGED <<request, rstate, response, life, browser, playwright,
                   browser_lock, engine, engineOf, driver, closing, local, via,
                   page, launches, origin,
                   warned>>

\* What page.close() raises when it fails.
PageCloseError ==
    [type |-> "playwright.Error", text |-> "page close error", timeout |-> 0,
     index |-> NoIndex]

\* A finally block that lets the close error out: it replaces what the
\* conversion had.
CloseErrorRaised(o, st) ==
    IF st = "close_failed" THEN [tag |-> "exc", exc |-> PageCloseError] ELSE o

\* try: await page.close() / except Exception as e: logger.warning(...): what
\* the conversion returns or raises once the close ended as st.
CloseErrorLogged(o, st) == o

\* finally: await page.close() ends, by returning or by raising (logged);
\* the conversion then returns or raises what it had.
PageCloseEnd(t) ==
    /\ pc[t] = "close_page"
    /\ \E st \in {"closed", "close_failed"} :
        /\ page' = [page EXCEPT ![t] = st]
        /\ outcome' = [outcome EXCEPT ![t] = CloseErrorLogged(outcome[t], st)]
    /\ pc' = [pc EXCEPT ![t] = "done"]
    /\ UNCHANGED <<request, rstate, response, life, browser, playwright,
                   browser_lock, engine, engineOf, driver, closing, local, via,
                   launches, origin,
                   warned>>

\* ----------------------------------------------------------- the endpoints

\* The endpoint is called with the parsed body, or the validation handler
\* answers in its place.
Receive ==
    /\ rstate = "received"
    /\ life = "serving"
    /\ IF Accepted
       THEN /\ rstate' = "running"
            /\ UNCHANGED response
       ELSE /\ rstate' = "responded"
            /\ response' = validation_exception_handler
    /\ UNCHANGED <<request, life, browser, playwright, browser_lock, engine,
                   engineOf, driver, closing, pc, local, via, page, outcome,
                   launches, origin,
                   warned>>

\* A gather without return_exceptions: it ends with the first exception.
GatherRaisesFirst ==
    \/ \A t \in 1..NJobs : pc[t] = "done"
    \/ \E t \in 1..NJobs : pc[t] = "done" /\ outcome[t].tag = "exc"

\* await asyncio.gather(*tasks, return_exceptions=True) (a single request:
\* await _convert_html_to_pdf_bytes) returns: every conversion has ended.
Gathered == \A t \in 1..NJobs : pc[t] = "done"

\* Every conversion of the request has ended: the single endpoints answer
\* from the one outcome, the batch endpoint from the gathered list.
Respond ==
    /\ rstate = "running"
    /\ Gathered
    /\ rstate' = "responded"
    /\ response' = IF IsBatch
                   THEN batch_response(gather, request.return_format)
                   ELSE _handle_conversion(outcome[1])
    /\ UNCHANGED <<request, life, browser, playwright, browser_lock, engine,
                   engineOf, driver, closing, pc, local, via, page, outcome,
                   launches, origin,
                   warned>>

\* -------------------------------------------------------------------- Next

Next ==
    \/ StartupEnter
    \/ StartupLaunch
    \/ LazyStart
    \/ TeardownBegin
    \/ CloseBrowserEnd
    \/ ClosePlaywrightEnd
    \/ Disconnect
    \/ Receive
    \/ Respond
    \/ \E t \in Tasks : Start(t)
    \/ \E t \in Tasks : LockGranted(t)
    \/ \E t \in Tasks : AenterEnd(t)
    \/ \E t \in Tasks : LaunchEnd(t)
    \/ \E t \in Tasks : NewPageEnd(t)
    \/ \E t \in Tasks : SetContentEnd(t)
    \/ \E t \in Tasks : PdfEnd(t)
    \/ \E t \in Tasks : PageCloseEnd(t)

Spec == Init /\ [][Next]_vars

\* What the program itself guarantees to happen: the event loop runs every
\* task that is ready (Receive, Start, Respond; the lock wakes its waiters
\* in turn), and the waits on set_content and pdf end because the page's
\* timer or wait_for's ends them. The awaits on launch, __aenter__, new_page
\* and page.close have no timer: they end only if the engine answers.
FairSpec ==
    /\ Spec
    /\ WF_vars(Receive)
    /\ WF_vars(Respond)
    /\ \A t \in Tasks :
          /\ WF_vars(Start(t))
          /\ SF_vars(LockGranted(t))
          /\ WF_vars(SetContentEnd(t))
          /\ WF_vars(PdfEnd(t))


\* ------------------------------------------------------------------ claims

Live == {e \in Engines : engine[e] = "live"}

\* The tasks inside the engine-creation step of _get_browser, and whether
\* startup is inside its own.
Creating == {t \in Tasks : pc[t] \in {"aenter", "launch"}}
StartupCreating == life \in {"start_browser"}

\* A task failed inside _get_browser: it raised before it had a browser.
AcquireFailed(t) == outcome[t].tag = "exc" /\ local[t] = 0

\* The handle was empty when serving began, and since then the engine has
\* started whenever asked, has stayed connected and teardown has not begun.
QuietLazyRun ==
    /\ origin = "lazy"
    /\ life = "serving"
    /\ \A e \in Engines : engine[e] # "dead"
    /\ \A t \in Tasks : ~AcquireFailed(t)

\* C1: with the cached handle empty at first and the tasks of a batch calling
\* _get_browser concurrently, in every interleaving the engine is launched
\* at most once, a task that has returned from _get_browser has launched it
\* exactly once overall, and every such task holds the one cached handle.
\* (The engine starts when asked and stays up: QuietLazyRun.)
C1_OneLaunch ==
    QuietLazyRun =>
        /\ launches <= 1
        /\ \A t \in Tasks :
              local[t] # 0 => /\ launches = 1
                              /\ local[t] = browser
                              /\ engine[local[t]] = "live"

\* C1 witness: both tasks of a full batch are past _get_browser at the same
\* time, each waiting for its page, after one launch.
C1_Witness ==
    /\ QuietLazyRun
    /\ NJobs = MaxJobs
    /\ \A t \in Tasks : pc[t] = "new_page" /\ local[t] = browser
    /\ launches = 1

\* C2: at most one live engine exists and no two callers are inside the
\* engine-creation step at once, in every reachable state.
C2_AtMostOneLive ==
    /\ Cardinality(Live) <= 1
    /\ Cardinality(Creating) + (IF StartupCreating THEN 1 ELSE 0) <= 1

\* The second half of C2 alone: creation is serialized.
C2_CreationSerialized ==
    Cardinality(Creating) + (IF StartupCreating THEN 1 ELSE 0) <= 1


\* ---- batch claims

BatchAnswered == IsBatch /\ rstate = "responded" /\ response.status # 422

Succeeded == {t \in 1..NJobs : outcome[t].tag = "ok"}
Failed == {t \in 1..NJobs : outcome[t].tag = "exc"}

\* The indices the batch response records a PDF under, and the PDF recorded
\* under index i: the archive entry document_<i+1>.pdf, or the json mapping.
ZipIndices == {response.entries[k].name[2] - 1 : k \in 1..Len(response.entries)}
Recorded ==
    IF response.kind = "application/zip" THEN ZipIndices
    ELSE IF response.kind = "application/json" THEN DOMAIN response.pdfs
    ELSE {}
ZipData(i) ==
    response.entries[CHOOSE k \in 1..Len(response.entries) :
                        response.entries[k].name[2] = i + 1].data

\* C3: a batch is answered only after every one of its conversions has
\* ended; every conversion that returned a PDF is recorded as a success
\* whatever its siblings did; and the step in which one conversion fails
\* leaves every sibling where it was, with the outcome it had.
C3_State ==
    BatchAnswered =>
        /\ \A t \in 1..NJobs : pc[t] = "done"
        /\ \A t \in Succeeded : (t - 1) \in Recorded
        /\ response.success_count = Cardinality(Succeeded)

C3_Step ==
    \A t \in Tasks :
        (outcome[t].tag = "none" /\ outcome'[t].tag = "exc") =>
            \A u \in Tasks \ {t} : pc'[u] = pc[u] /\ outcome'[u] = outcome[u]

C3_NoShortCircuit == []C3_State /\ [][C3_Step]_vars

\* C3 witness: a full batch answered with one conversion failed and the
\* other recorded.
C3_Witness ==
    /\ BatchAnswered
    /\ NJobs = MaxJobs
    /\ outcome[1].tag = "exc"
    /\ \A t \in 2..NJobs : outcome[t].tag = "ok" /\ (t - 1) \in Recorded

\* C4: in the batch response the payload under index i is the PDF of the
\* i-th submitted document (its base64 text in json mode), and the failure
\* listed with index i is the one the i-th conversion raised.
C4_Attribution ==
    BatchAnswered =>
        /\ \A i \in Recorded :
              /\ i + 1 \in Succeeded
              /\ IF response.kind = "application/zip"
                 THEN ZipData(i) = PdfOf(request.html_list[i + 1])
                 ELSE response.pdfs[i] = b64encode(PdfOf(request.html_list[i + 1]))
        /\ \A k \in 1..Len(response.errors) :
              /\ response.errors[k].index + 1 \in Failed
              /\ response.errors[k].error = outcome[response.errors[k].index + 1].exc

\* C4 witness: a batch of two different documents, both recorded.
C4_Witness ==
    /\ BatchAnswered
    /\ NJobs = MaxJobs
    /\ request.html_list[1] # request.html_list[2]
    /\ Recorded = {t - 1 : t \in 1..NJobs}

\* C5: with k of the N conversions of a batch failed, the outcome counts
\* N - k successes and k failures, of a total of N.
C5_Counts ==
    BatchAnswered =>
        /\ response.total = NJobs
        /\ response.error_count = Cardinality(Failed)
        /\ response.success_count = NJobs - Cardinality(Failed)
        /\ response.success_count + response.error_count = response.total

\* C5 witness: a full batch answered with exactly one failure.
C5_Witness ==
    /\ BatchAnswered
    /\ NJobs = MaxJobs
    /\ Cardinality(Failed) = 1
    /\ response.success_count = MaxJobs - 1

\* C6: a batch is answered 500, with the total and one error descriptor per
\* job, exactly when no conversion succeeded; with a success it is answered
\* 200, and with every conversion succeeded the response carries neither
\* the X-Conversion headers nor an errors list.
C6_WholeBatchFailure ==
    BatchAnswered =>
        /\ response.status = 500 <=> response.success_count = 0
        /\ response.status = 500 =>
              /\ response.total = NJobs
              /\ response.errors_key
              /\ {response.errors[k].index : k \in 1..Len(response.errors)}
                    = {t - 1 : t \in 1..NJobs}
        /\ response.success_count > 0 => response.status = 200
        /\ response.success_count = NJobs =>
              /\ response.headers = {}
              /\ ~response.errors_key
              /\ response.errors = <<>>

\* C6 witness: a full batch, every conversion failed, answered 500.
C6_Witness ==
    /\ BatchAnswered
    /\ NJobs = MaxJobs
    /\ response.status = 500
    /\ Len(response.errors) = MaxJobs

\* ---- single conversion claims

\* The conversion of task t ended because one of its two bounded waits ran
\* out: the page's own timeout (BROWSER_TIMEOUT) or wait_for's
\* (CONVERSION_TIMEOUT).
TimedOut(t) ==
    /\ outcome[t].tag = "exc"
    /\ outcome[t].exc.type \in {"TimeoutError", "playwright.TimeoutError"}

\* C7: a conversion that ran out of either timeout bound fails as a
\* conversion timeout whose message has the configured timeout and the
\* job's index; every other failure is not a timeout.
C7_TimeoutClassified ==
    \A t \in Tasks :
        outcome[t].tag = "exc" =>
            IF TimedOut(t)
            THEN /\ IsTimeoutError(outcome[t].exc)
                 /\ outcome[t].exc.timeout = CONVERSION_TIMEOUT
                 /\ outcome[t].exc.index = IndexOf(t)
            ELSE ~IsTimeoutError(outcome[t].exc)

SingleAnswered == ~IsBatch /\ rstate = "responded" /\ response.status # 422

\* C8: a single request is answered 504 when its conversion timed out (either
\* bound), 500 on any other failure, and 200 with the PDF bytes and their
\* length on success.
C8_SingleStatus ==
    SingleAnswered =>
        IF outcome[1].tag = "ok"
        THEN /\ response.status = 200
             /\ response.body = outcome[1].pdf
             /\ response.length = Len(response.body)
        ELSE IF TimedOut(1) THEN response.status = 504
        ELSE response.status = 500

\* C9: a single request whose html is empty or whitespace-only is answered
\* 400 and no conversion is started for it.
C9_BlankRejected ==
    (~IsBatch /\ request.html_list[1].blank) =>
        /\ pc[1] = "idle"
        /\ rstate = "responded" => response.status = 400

\* C10: a conversion that opened a page attempts page.close() before it
\* returns, on every exit path: a page is open only while its conversion is
\* loading, printing or closing it, and a finished conversion has none open.
C10_PageReleased ==
    \A t \in Tasks :
        /\ page[t] = "open" => pc[t] \in {"set_content", "pdf", "close_page"}
        /\ pc[t] = "done" => page[t] \in {"none", "closed", "close_failed"}
        /\ (pc[t] = "done" /\ local[t] # 0 /\ page[t] = "none") =>
              (outcome[t].tag = "exc" /\ outcome[t].exc = EngineError)

\* C10 witness: a full batch ended, one conversion by a load timeout and the
\* other by a print timeout, both pages with a close attempted.
C10_Witness ==
    /\ NJobs = MaxJobs
    /\ \A t \in 1..NJobs : pc[t] = "done" /\ page[t] \in {"closed", "close_failed"}
    /\ outcome[1].tag = "exc" /\ outcome[1].exc.type = "playwright.TimeoutError"
    /\ outcome[2].tag = "exc" /\ outcome[2].exc.type = "TimeoutError"


\* C11: a page.close() that fails at the end of a conversion changes nothing
\* of what the conversion returns or raises: the step that ends the close
\* leaves the outcome as it was, so a conversion that printed still returns
\* the PDF of its document and one that failed still raises that failure,
\* never the close error.
C11_State ==
    \A t \in Tasks :
        (pc[t] = "done" /\ page[t] = "close_failed") =>
            /\ outcome[t].tag \in {"ok", "exc"}
            /\ outcome[t].tag = "ok" =>
                  outcome[t].pdf = PdfOf(request.html_list[t])
            /\ outcome[t].tag = "exc" => outcome[t].exc # PageCloseError

C11_Step ==
    \A t \in Tasks :
        (pc[t] = "close_page" /\ pc'[t] = "done") => outcome'[t] = outcome[t]

C11_ReleaseKeepsOutcome == []C11_State /\ [][C11_Step]_vars

\* C11 witness: a full batch ended with both page closes failed, one
\* conversion returning its PDF and the other raising its timeout.
C11_Witness ==
    /\ NJobs = MaxJobs
    /\ \A t \in 1..NJobs : pc[t] = "done" /\ page[t] = "close_failed"
    /\ outcome[1].tag = "ok" /\ outcome[1].pdf = PdfOf(request.html_list[1])
    /\ outcome[2].tag = "exc" /\ IsTimeoutError(outcome[2].exc)


\* ---- packaging claims

\* The indices of the jobs that succeeded and of those that failed.
OkIndices == {t - 1 : t \in Succeeded}
FailedIndices == {t - 1 : t \in Failed}

\* A list of failure descriptors is in ascending index order and describes
\* each failed job once, with its index, its message and its kind.
Descriptors(errs) ==
    /\ Len(errs) = Cardinality(Failed)
    /\ {errs[k].index : k \in 1..Len(errs)} = FailedIndices
    /\ \A k \in 1..Len(errs) : \A l \in 1..Len(errs) :
          k < l => errs[k].index < errs[l].index
    /\ \A k \in 1..Len(errs) :
          /\ DOMAIN errs[k] = {"index", "error", "error_type"}
          /\ errs[k].index + 1 \in Failed
          /\ errs[k].error = outcome[errs[k].index + 1].exc

\* C13: a zip-mode batch with a success is answered with an archive that
\* has one entry per successful job and none for a failed one, the entry of
\* index i named document_<i+1>.pdf and holding the PDF of the i-th
\* document, entries in ascending index order; the X-Conversion-Errors and
\* X-Conversion-Success headers are there exactly when a job failed, with
\* the failure and success counts.
C13_ZipMode ==
    (IsBatch /\ rstate = "responded" /\ request.return_format = "zip"
       /\ Succeeded # {}) =>
        /\ response.status = 200 /\ response.kind = "application/zip"
        /\ Len(response.entries) = Cardinality(Succeeded)
        /\ {response.entries[k].name : k \in 1..Len(response.entries)}
              = {<<"document_", i + 1, ".pdf">> : i \in OkIndices}
        /\ \A k \in 1..Len(response.entries) :
              /\ response.entries[k].name[2] \in Succeeded
              /\ response.entries[k].data
                    = PdfOf(request.html_list[response.entries[k].name[2]])
              /\ response.entries[k].data = outcome[response.entries[k].name[2]].pdf
        /\ \A k \in 1..Len(response.entries) : \A l \in 1..Len(response.entries) :
              k < l => response.entries[k].name[2] < response.entries[l].name[2]
        /\ response.headers =
              IF Failed # {}
              THEN {<<"X-Conversion-Errors", Cardinality(Failed)>>,
                    <<"X-Conversion-Success", Cardinality(Succeeded)>>}
              ELSE {}

\* C13 witness: a zip-mode batch whose first job failed and whose second
\* succeeded: one entry, document_2.pdf, and both headers.
C13_Witness ==
    /\ IsBatch /\ rstate = "responded" /\ request.return_format = "zip"
    /\ NJobs = MaxJobs
    /\ Failed = {1} /\ Succeeded = 2..MaxJobs
    /\ response.entries[1].name = <<"document_", 2, ".pdf">>
    /\ response.headers # {}

\* base64 text: groups of four sextets, "=" (64) only as the padding of the
\* last group.
IsBase64(txt) ==
    /\ Len(txt) % 4 = 0
    /\ \A k \in 1..Len(txt) : txt[k] \in 0..64
    /\ \A k \in 1..Len(txt) :
          txt[k] = 64 => /\ k >= Len(txt) - 1
                         /\ \A l \in k..Len(txt) : txt[l] = 64

\* base64.b64decode, as the client applies it.
RECURSIVE b64decode(_)
b64decode(txt) ==
    IF Len(txt) < 4 THEN <<>>
    ELSE (IF txt[3] = 64
          THEN <<txt[1] * 4 + (txt[2] \div 16)>>
          ELSE IF txt[4] = 64
          THEN <<txt[1] * 4 + (txt[2] \div 16),
                 (txt[2] % 16) * 16 + (txt[3] \div 4)>>
          ELSE <<txt[1] * 4 + (txt[2] \div 16),
                 (txt[2] % 16) * 16 + (txt[3] \div 4),
                 (txt[3] % 4) * 64 + txt[4]>>)
         \o b64decode(SubSeq(txt, 5, Len(txt)))

C19_TimeoutKind ==
    BatchAnswered =>
        \A k \in 1..Len(response.errors) :
            LET t == response.errors[k].index + 1
            IN  /\ t \in Failed
                /\ response.errors[k].error = outcome[t].exc
                /\ response.errors[k].error_type =
                      IF TimedOut(t) THEN "timeout" ELSE TypeName(outcome[t].exc)

\* What holds of the descriptors: the kind is "timeout" for the builtin
\* TimeoutError that the conversion raises when wait_for ran out, and the
\* type name for everything else, the page's own TimeoutError included.
C19_KindByClass ==
    BatchAnswered =>
        \A k \in 1..Len(response.errors) :
            LET t == response.errors[k].index + 1
            IN  /\ t \in Failed
                /\ response.errors[k].error = outcome[t].exc
                /\ response.errors[k].error_type =
                      IF outcome[t].exc.type = "TimeoutError" THEN "timeout"
                      ELSE IF outcome[t].exc.type = "playwright.TimeoutError"
                      THEN "TimeoutError"
                      ELSE "Error"

\* ---- validation claims

\* A batch respects both limits: 1..MAX_BATCH_SIZE items, each with a
\* character that is not whitespace and of at most MAX_HTML_SIZE bytes.
WithinLimits(v) ==
    /\ Len(v) >= 1 /\ Len(v) <= MAX_BATCH_SIZE
    /\ \A i \in 1..Len(v) : ~v[i].blank /\ v[i].bytes <= MAX_HTML_SIZE

\* C20: a batch request that is empty, has more than MAX_BATCH_SIZE items
\* or has an item that is empty, whitespace-only or larger than
\* MAX_HTML_SIZE bytes never gets a conversion started: it is rejected as a
\* whole, so the batch behind every running job respects both limits.
C20_BatchLimits ==
    (IsBatch /\ ~WithinLimits(request.html_list)) =>
        /\ rstate # "running"
        /\ \A t \in Tasks : pc[t] = "idle" /\ outcome[t] = NoOutcome
        /\ rstate = "responded" => response = validation_exception_handler

\* What holds: the same for the request models of server.py.
C20_ServerBatchLimits ==
    (IsBatch /\ request.module = "server" /\ ~WithinLimits(request.html_list)) =>
        /\ rstate # "running"
        /\ \A t \in Tasks : pc[t] = "idle" /\ outcome[t] = NoOutcome
        /\ rstate = "responded" => response = validation_exception_handler

\* ---- handle claims

\* The step in which task t's _get_browser fails: __aenter__ or launch
\* raises inside the lock.
StartFails(t) ==
    /\ pc[t] \in {"aenter", "launch"}
    /\ outcome[t].tag = "none"
    /\ outcome'[t].tag = "exc"

\* C15: when the engine fails to start inside _get_browser, on first
\* creation or on recreation after a disconnect, the call raises the engine
\* error and right after it no handle is cached: _browser is None.
C15_Step ==
    \A t \in Tasks :
        StartFails(t) =>
            /\ outcome'[t].exc = EngineError
            /\ local'[t] = 0
            /\ browser' = 0

C15_FailedStartCachesNothing == [][C15_Step]_vars

\* What holds of a failed start: the call raises the engine error and
\* _browser is left as it was, None or the disconnected handle that made
\* the call try; never a connected or new one.
C15_KeptStep ==
    \A t \in Tasks :
        StartFails(t) =>
            /\ outcome'[t].exc = EngineError
            /\ local'[t] = 0
            /\ browser' = browser
            /\ browser' # 0 => engine'[browser'] = "dead"

C15_FailedStartKeepsHandle == [][C15_KeptStep]_vars

\* C17: _browser_lock is held only inside the creation step of
\* _get_browser: a conversion that is opening its page, loading, printing
\* or closing its page does not hold it, and neither does a finished one.
C17_LockOnlyInCreation ==
    /\ browser_lock \in {0} \cup Tasks
    /\ \A t \in Tasks :
          /\ browser_lock = t => pc[t] \in {"aenter", "launch"}
          /\ pc[t] \in {"new_page", "set_content", "pdf", "close_page", "done"}
                => browser_lock # t

\* C17 witness: after one creation under the lock, every conversion of a
\* full batch is loading or printing at the same time, the lock free.
C17_Witness ==
    /\ origin = "lazy" /\ launches = 1
    /\ NJobs = MaxJobs
    /\ \A t \in Tasks : pc[t] \in {"set_content", "pdf"} /\ page[t] = "open"
    /\ browser_lock = 0

\* The cached handle is empty or disconnected.
HandleUnusable == browser = 0 \/ engine[browser] # "live"

\* C18: a _get_browser that finds the cached handle empty or disconnected
\* does not return it and raises nothing for it: it goes on to create an
\* engine (or to wait for the lock); when the launch succeeds the engine is
\* a new one, stored in _browser and returned; and whatever _get_browser
\* returns is, at that moment, the cached handle and connected.
C18_Step ==
    \A t \in Tasks :
        /\ (pc[t] = "idle" /\ pc'[t] # "idle" /\ HandleUnusable) =>
              /\ local'[t] = 0
              /\ pc'[t] \in {"wait_lock", "aenter", "launch"}
        /\ (pc[t] \in {"idle", "wait_lock"} /\ pc'[t] # pc[t]) =>
              outcome'[t].tag = "none"
        /\ (pc[t] = "launch" /\ pc'[t] = "new_page") =>
              /\ engine[local'[t]] = "unborn"
              /\ browser' = local'[t]
        /\ (local[t] = 0 /\ local'[t] # 0) =>
              /\ local'[t] = browser'
              /\ engine'[local'[t]] = "live"
              /\ outcome'[t].tag = "none"

C18_Recreated == [][C18_Step]_vars

\* C18 witness: the engine launched at startup has disconnected and a
\* conversion has come back from _get_browser with a new, connected engine
\* that is now the cached handle.
C18_Witness ==
    /\ origin = "startup" /\ life = "serving"
    /\ engine[1] = "dead"
    /\ \E t \in Tasks :
          /\ pc[t] = "new_page" /\ outcome[t].tag = "none"
          /\ local[t] = browser /\ local[t] # 1
          /\ engine[local[t]] = "live"

\* ---- teardown claims

\* The steps in which the finally block of lifespan (close_browser) is
\* entered and in which it ends.
TeardownStarts ==
    /\ life \in {"boot", "start_browser", "serving"}
    /\ life' \in {"close_browser", "close_pw", "closed"}
TeardownEnds == life # "closed" /\ life' = "closed"

\* Teardown goes forward only: close of the engine, then of the driver,
\* each at most once, and a cached engine handle has its close attempted.
TeardownOnce ==
    /\ TeardownStarts =>
          /\ browser # 0 <=> life' = "close_browser"
          /\ life' = "close_browser" => closing' = browser
    /\ life = "close_browser" => life' \in {"close_browser", "close_pw", "closed"}
    /\ life = "close_pw" => life' \in {"close_pw", "closed"}
    /\ life = "closed" => life' = "closed"

\* C16: teardown ends with _browser and _playwright both None, also when a
\* close raised, it raises nothing itself, and a cached engine handle has
\* its close attempted exactly once.
C16_Step ==
    /\ TeardownOnce
    /\ TeardownEnds => (browser' = 0 /\ playwright' = 0)

C16_TeardownClears == [][C16_Step]_vars

\* What holds of teardown: it goes through both closes whether they raise
\* or not, _browser is None right after the engine's close and _playwright
\* is None when teardown ends.
C16_KeptStep ==
    /\ TeardownOnce
    /\ (life = "close_browser" /\ life' # "close_browser") => browser' = 0
    /\ TeardownEnds => playwright' = 0

C16_TeardownTolerant == [][C16_KeptStep]_vars

\* C12: every conversion that has started ends, whatever the engine does:
\* no conversion waits forever, also with an engine that never answers the
\* launch, new_page, set_content, pdf or page.close call.
C12_Terminates ==
    \A t \in Tasks : (pc[t] # "idle") ~> (pc[t] = "done")

\* The part of C12 the two wait_for calls give: a conversion that is loading
\* or printing leaves that phase.
C12_LoadAndPrintBounded ==
    \A t \in Tasks :
        (pc[t] \in {"set_content", "pdf"}) ~> (pc[t] \in {"close_page", "done"})


\* ---- single attempt

\* How far a conversion has gone.
Rank(p) ==
    CASE p = "idle" -> 0
      [] p = "wait_lock" -> 1
      [] p = "aenter" -> 2
      [] p = "launch" -> 3
      [] p = "new_page" -> 4
      [] p = "set_content" -> 5
      [] p = "pdf" -> 6
      [] p = "close_page" -> 7
      [] p = "done" -> 8

\* C21: every job is converted by one conversion that tries once: only the
\* jobs of the accepted request get a conversion, each conversion goes
\* forward only, so set_content and pdf are each called at most once for
\* it, pdf is called only when set_content has returned in time, and once
\* the conversion has its result or its failure it only closes its page
\* and ends, with the PDF of its own document when it succeeded.
C21_State ==
    \A t \in Tasks :
        /\ pc[t] # "idle" => t <= NJobs
        /\ outcome[t].tag = "ok" =>
              outcome[t].pdf = PdfOf(request.html_list[t])

C21_Step ==
    \A t \in Tasks :
        /\ pc'[t] # pc[t] => Rank(pc'[t]) > Rank(pc[t])
        /\ (pc'[t] = "set_content" /\ pc[t] # "set_content") =>
              pc[t] = "new_page"
        /\ (pc'[t] = "pdf" /\ pc[t] # "pdf") =>
              (pc[t] = "set_content" /\ outcome'[t] = NoOutcome)
        /\ outcome[t] # NoOutcome =>
              (outcome'[t] = outcome[t] /\ pc'[t] \in {"close_page", "done"})

C21_SingleAttempt == []C21_State /\ [][C21_Step]_vars

\* C21 witness: a full batch ended, the first conversion by the load's
\* timeout without a print, the second with its PDF after one load and one
\* print.
C21_Witness ==
    /\ NJobs = MaxJobs
    /\ \A t \in 1..NJobs : pc[t] = "done"
    /\ outcome[1].tag = "exc" /\ outcome[1].exc = PageTimeout
    /\ outcome[2].tag = "ok" /\ outcome[2].pdf = PdfOf(request.html_list[2])


\* ---- the lock after a failed start

\* C22: when the engine fails to start inside _get_browser the lock is free
\* right after: it is never held by a conversion that is not creating, a
\* caller waiting for a free lock can take it, the caller that takes it
\* with the handle still unusable tries the creation again, and a launch
\* that then succeeds gives it a connected engine that is cached.
C22_State ==
    /\ browser_lock # 0 =>
          /\ pc[browser_lock] \in {"aenter", "launch"}
          /\ outcome[browser_lock] = NoOutcome
    /\ \A u \in Tasks :
          (pc[u] = "wait_lock" /\ browser_lock = 0) => ENABLED LockGranted(u)

C22_Step ==
    \A t \in Tasks :
        /\ StartFails(t) => (browser_lock = t /\ browser_lock' = 0)
        /\ (pc[t] \in {"idle", "wait_lock"} /\ pc'[t] \in {"aenter", "launch"}) =>
              /\ HandleUnusable
              /\ browser_lock = 0 /\ browser_lock' = t
        /\ (pc[t] = "wait_lock" /\ pc'[t] # "wait_lock" /\ HandleUnusable) =>
              pc'[t] \in {"aenter", "launch"}
        /\ (pc[t] = "launch" /\ pc'[t] = "new_page") =>
              /\ browser' = local'[t]
              /\ engine'[browser'] = "live"
              /\ browser_lock' = 0

C22_LockFreeAfterFailure == []C22_State /\ [][C22_Step]_vars

\* C22 witness: the first conversion's _get_browser failed at the launch
\* and the second, after a launch of its own, has the new engine, cached
\* and connected, with the lock free.
C22_Witness ==
    /\ origin = "lazy" /\ life = "serving"
    /\ pc[1] = "done" /\ AcquireFailed(1) /\ via[1] # 0
    /\ pc[2] = "new_page" /\ local[2] = browser /\ engine[browser] = "live"
    /\ launches = 2
    /\ browser_lock = 0


\* ---- teardown against conversions in flight

\* Teardown is over and so is every conversion of the request.
AllEnded ==
    /\ life = "closed"
    /\ \A t \in Tasks : IF t <= NJobs THEN pc[t] = "done" ELSE pc[t] = "idle"

\* C23: once teardown is over and every conversion that was in flight
\* has ended, _browser is None and no engine is connected: a _get_browser
\* that overlapped teardown has left no engine behind. (Stated for a
\* teardown whose own closes raised nothing.)
C23_NothingLeftBehind ==
    (AllEnded /\ warned = {}) => (browser = 0 /\ Live = {})


====
